---- MODULE Spec2Model ----
(***************************************************************************)
(* Model of src/server.js: a relay between a chat platform (Telegram) and  *)
(* a resume backend.  Three routes are modelled:                           *)
(*   POST /tg-webhook    -> bot.processUpdate -> bot.on('message') handler *)
(*   POST /resume-ready  -> document / HR contact / jobId delivery         *)
(*   POST /admin/resend  -> single document re-send                        *)
(*                                                                         *)
(* Node runs each handler on one event loop: the code between two awaits   *)
(* is one atomic step.  An action below is therefore either the arrival of *)
(* a request (the synchronous part of its handler, up to the first await)  *)
(* or the settlement of the awaited outbound call together with the        *)
(* continuation that runs up to the next await.                            *)
(*                                                                         *)
(* JavaScript values are written as strings: "undefined" is an absent      *)
(* field, "null" is null, "0" is the number zero, "" the empty string;     *)
(* every other string is a truthy value.  Message texts are sequences of   *)
(* one-character strings, so that trim/startsWith/replace are computed.    *)
(***************************************************************************)
EXTENDS Naturals, Sequences, FiniteSets, TLC

VARIABLES secret, req, pc, trace

vars == <<secret, req, pc, trace>>

(***************************************************************************)
(* Values and configuration                                                *)
(***************************************************************************)
Undefined == "undefined"

Null == "null"

\* JavaScript truthiness of a scalar: undefined, null, 0 and '' are falsy.
Truthy(v) == v \notin {Undefined, Null, "0", ""}

\* a || b
Or(a, b) == IF Truthy(a) THEN a ELSE b

\* process.env.BACKEND_SECRET: startup exits unless it is set (non-empty).
BACKEND_SECRET == "backend-secret"

\* The values process.env.TELEGRAM_WEBHOOK_SECRET || '' can take.
WebhookSecrets == {"", "hook-secret"}

\* Request slots.  A slot holds one request from arrival to its last step.
\* The handlers share no variable (the module state of server.js is constant
\* after startup), so Spec follows one request through every input and every
\* outcome, and SpecMessages interleaves two.
Slots == {1, 2}

\* The slot Spec uses.
Serial == {1}

(***************************************************************************)
(* Text functions of String.prototype used by the message handler          *)
(***************************************************************************)
\* The characters String.prototype.trim removes: ECMAScript WhiteSpace (TAB,
\* VT, FF, SP, NBSP, ZWNBSP and the other space separators) and LineTerminator
\* (LF, CR, LS, PS).  A character that has no escape here is written as its
\* code point.
WhiteSpace ==
  { "\t", "U+000B", "\f", " ", "U+00A0", "U+FEFF",
    "U+1680", "U+2000", "U+2001", "U+2002", "U+2003", "U+2004", "U+2005",
    "U+2006", "U+2007", "U+2008", "U+2009", "U+200A", "U+202F", "U+205F",
    "U+3000",
    "\n", "\r", "U+2028", "U+2029" }

IsSpace(c) == c \in WhiteSpace

RECURSIVE TrimStart(_)
TrimStart(t) ==
  IF t # <<>> /\ IsSpace(Head(t)) THEN TrimStart(Tail(t)) ELSE t

RECURSIVE TrimEnd(_)
TrimEnd(t) ==
  IF t # <<>> /\ IsSpace(t[Len(t)]) THEN TrimEnd(SubSeq(t, 1, Len(t) - 1)) ELSE t

\* String.prototype.trim
Trim(t) == TrimEnd(TrimStart(t))

\* String.prototype.startsWith
StartsWith(t, p) == Len(t) >= Len(p) /\ SubSeq(t, 1, Len(p)) = p

\* Index of the first occurrence of p in t, 0 when there is none.
IndexOf(t, p) ==
  LET hits == {i \in 1..(Len(t) - Len(p) + 1) : SubSeq(t, i, i + Len(p) - 1) = p}
  IN  IF hits = {} THEN 0 ELSE CHOOSE i \in hits : \A j \in hits : i <= j

\* String.prototype.replace(p, r) with a string pattern: first occurrence only.
Replace(t, p, r) ==
  LET i == IndexOf(t, p)
  IN  IF i = 0 THEN t
      ELSE SubSeq(t, 1, i - 1) \o r \o SubSeq(t, i + Len(p), Len(t))

\* '/apply'
ApplyCmd == <<"/", "a", "p", "p", "l", "y">>

(***************************************************************************)
(* Events of a request's trace, in the order the event loop performs them  *)
(***************************************************************************)
\* bot.sendMessage(chatId, text): the call is started.
SendMessage(chatId, text) ==
  [e |-> "call", op |-> "sendMessage", to |-> chatId, arg |-> text, opt |-> <<>>]

\* bot.sendDocument(chatId, fileIdOrUrl, {caption}): the call is started.
SendDocument(chatId, file, caption) ==
  [e |-> "call", op |-> "sendDocument", to |-> chatId, arg |-> <<file>>, opt |-> caption]

\* axios.post(BACKEND_URL/apply, {userId, jd, meta: {username, chatId}},
\* {headers: {'x-api-key': BACKEND_SECRET}, timeout}): the call is started.
PostApply(userId, jd, username, chatId) ==
  [e |-> "call", op |-> "post", to |-> "/apply", arg |-> jd,
   opt |-> <<userId, username, chatId>>, key |-> BACKEND_SECRET]

\* The awaited call resolved ("ok") or rejected (any other outcome).
Settled(res) == [e |-> "settled", res |-> res]

\* res.sendStatus(n) / res.status(n).json(body) / res.json(body)
Respond(status, body) == [e |-> "respond", status |-> status, body |-> body]

\* Outcomes of a messaging call.
SendOutcomes == {"ok", "error"}

\* Outcomes of the backend call: 2xx, or a rejection (non-2xx, 10 s timeout, network).
PostOutcomes == {"ok", "non2xx", "timeout", "network"}

(***************************************************************************)
(* Fixed message texts (their emoji and typographic dashes left out)        *)
(***************************************************************************)
PromptText == <<"Please send the Job Description text (paste JD or use /apply <JD>).">>

UsageText == <<"Usage: /apply <paste the job description here>">>

AckText ==
  <<"Received the Job Description. Generating an ATS-optimized resume - this may take ~20-40 seconds. I will send it here once ready.">>

SubmitFailedText == <<"Failed to submit the job to the backend. Please try again later.">>

(***************************************************************************)
(* Inputs of POST /tg-webhook                                              *)
(***************************************************************************)
\* msg.from / msg.chat: an absent object is written as one whose id is undefined.
NoFrom == [id |-> Undefined, username |-> Undefined]

NoChat == [id |-> Undefined]

Present(obj) == obj.id # Undefined

Senders == {NoFrom, [id |-> "7", username |-> "ann"], [id |-> "8", username |-> Undefined]}

Chats == {NoChat, [id |-> "100"], [id |-> "200"]}

\* Sample texts: empty, blank, the bare command, the command with a job
\* description (with and without a separating space), plain job descriptions,
\* a job description that mentions the command, and the command twice.
Texts ==
  { <<>>,
    <<" ", "\n">>,
    <<"\t", "\r", "\n">>,
    <<"/", "a", "p", "p", "l", "y", "\f", "U+00A0">>,
    <<"/", "a", "p", "p", "l", "y", "\t", "q", "a">>,
    <<"/", "a", "p", "p", "l", "y">>,
    <<" ", "/", "a", "p", "p", "l", "y", " ", " ">>,
    <<"/", "a", "p", "p", "l", "y", " ", "q", "a">>,
    <<"/", "a", "p", "p", "l", "y", "q", "a">>,
    <<"q", "a">>,
    <<" ", "d", "e", "v", " ">>,
    <<"q", " ", "/", "a", "p", "p", "l", "y">>,
    <<"/", "a", "p", "p", "l", "y", " ", "/", "a", "p", "p", "l", "y">> }

\* A message with text, or a non-text message (photo, sticker: no text field).
Messages ==
  [from : Senders, chat : Chats, hasText : {TRUE}, text : Texts]
    \cup [from : Senders, chat : Chats, hasText : {FALSE}, text : {<<>>}]

NoMessage == [from |-> NoFrom, chat |-> NoChat, hasText |-> FALSE, text |-> <<>>]

\* req.body: an update carrying a message, an update of another kind
\* (edited_message, callback_query, ...), or a body on which
\* bot.processUpdate throws.
Updates ==
  [kind : {"message"}, message : Messages]
    \cup [kind : {"other", "throws"}, message : {NoMessage}]

\* req.get('x-telegram-bot-api-secret-token')
SecretHeaders == {Undefined, "wrong-secret", "hook-secret"}

(***************************************************************************)
(* bot.on('message') handler                                               *)
(***************************************************************************)
\* Mutant: the text is not trimmed, so a blank text counts as a job description.
MsgText_NoTrim(msg) == IF msg.hasText THEN msg.text ELSE <<>>

\* const text = (msg.text || '').trim()
MsgText(msg) == Trim(IF msg.hasText THEN msg.text ELSE <<>>)

\* Mutant: the remainder after the /apply prefix is not trimmed.
JdText_NoTrim(text) ==
  IF StartsWith(text, ApplyCmd) THEN Replace(text, ApplyCmd, <<>>) ELSE text

\* let jdText = text; if (text.startsWith('/apply')) jdText = text.replace('/apply', '').trim()
JdText(text) ==
  IF StartsWith(text, ApplyCmd) THEN Trim(Replace(text, ApplyCmd, <<>>)) ELSE text

\* The branch the handler takes for msg, up to its first await.
Classify(msg) ==
  IF ~Present(msg.from) \/ ~Present(msg.chat) THEN "ignore"
  ELSE IF MsgText(msg) = <<>> THEN "prompt"
  ELSE IF JdText(MsgText(msg)) = <<>> THEN "usage"
  ELSE "ack"

\* const username = msg.from.username || ''
Username(msg) == Or(msg.from.username, "")

\* Mutant: a job description is submitted at once, without acknowledgement.
OnMessage_SubmitFirst(msg) ==
  CASE ~Present(msg.from) \/ ~Present(msg.chat) -> [pc |-> "done", ev |-> <<>>]
    [] Present(msg.from) /\ Present(msg.chat) /\ MsgText(msg) = <<>> ->
         [pc |-> "awaitPrompt", ev |-> <<SendMessage(msg.chat.id, PromptText)>>]
    [] Present(msg.from) /\ Present(msg.chat) /\ MsgText(msg) # <<>>
         /\ JdText(MsgText(msg)) = <<>> ->
         [pc |-> "awaitUsage", ev |-> <<SendMessage(msg.chat.id, UsageText)>>]
    [] OTHER ->
         [pc |-> "awaitApply",
          ev |-> <<PostApply(msg.from.id, JdText(MsgText(msg)),
                             Or(msg.from.username, ""), msg.chat.id)>>]

\* The synchronous part of the handler: the position it suspends at and the
\* calls it has started by then.
OnMessage(msg) ==
  CASE Classify(msg) = "ignore" -> [pc |-> "done", ev |-> <<>>]
    [] Classify(msg) = "prompt" ->
         [pc |-> "awaitPrompt", ev |-> <<SendMessage(msg.chat.id, PromptText)>>]
    [] Classify(msg) = "usage" ->
         [pc |-> "awaitUsage", ev |-> <<SendMessage(msg.chat.id, UsageText)>>]
    [] OTHER ->
         [pc |-> "awaitAck", ev |-> <<SendMessage(msg.chat.id, AckText)>>]

\* After the prompt or the usage hint settles: return, or the catch of line 213.
AfterHint(msg, res) == [pc |-> "done", ev |-> <<>>]

\* Mutant: the submission starts whether the acknowledgement was sent or not.
AfterAck_Ungated(msg, res) ==
  [pc |-> "awaitApply",
   ev |-> <<PostApply(msg.from.id, JdText(MsgText(msg)), Username(msg), msg.chat.id)>>]

\* After the acknowledgement settles: the detached submission starts its POST
\* when the send resolved; a rejection goes to the catch of line 213.
AfterAck(msg, res) ==
  IF res = "ok"
  THEN [pc |-> "awaitApply",
        ev |-> <<PostApply(msg.from.id, JdText(MsgText(msg)), Username(msg), msg.chat.id)>>]
  ELSE [pc |-> "done", ev |-> <<>>]

\* Mutant: a failed submission is also reported on the webhook response.
AfterApply_Report(msg, res) ==
  IF res = "ok"
  THEN [pc |-> "done", ev |-> <<>>]
  ELSE [pc |-> "awaitNotice",
        ev |-> <<Respond(502, ""), SendMessage(msg.chat.id, SubmitFailedText)>>]

\* After axios.post settles: done on 2xx, else the failure notice of line 207.
AfterApply(msg, res) ==
  IF res = "ok"
  THEN [pc |-> "done", ev |-> <<>>]
  ELSE [pc |-> "awaitNotice", ev |-> <<SendMessage(msg.chat.id, SubmitFailedText)>>]

\* Mutant: a failure notice that fails is sent again.
AfterNotice_Retry(msg, res) ==
  IF res = "ok"
  THEN [pc |-> "done", ev |-> <<>>]
  ELSE [pc |-> "awaitNotice", ev |-> <<SendMessage(msg.chat.id, SubmitFailedText)>>]

\* After the failure notice settles: its own failure is ignored (line 209).
AfterNotice(msg, res) == [pc |-> "done", ev |-> <<>>]

(***************************************************************************)
(* POST /tg-webhook                                                        *)
(***************************************************************************)
\* Mutant: a request without the secret header passes the check.
WebhookAuthorized_MissingPasses(sec, header) ==
  ~Truthy(sec) \/ ~Truthy(Or(header, "")) \/ Or(header, "") = sec

\* if (TELEGRAM_WEBHOOK_SECRET) { header = req.get(..) || ''; reject unless equal }
WebhookAuthorized(sec, header) ==
  ~Truthy(sec) \/ (Truthy(Or(header, "")) /\ Or(header, "") = sec)

\* bot.processUpdate(update): emits 'message' synchronously when the update
\* carries one; the async handler runs up to its first await.
ProcessUpdate(update) ==
  IF update.kind = "message" THEN OnMessage(update.message)
  ELSE [pc |-> "done", ev |-> <<>>]

\* Mutant: the route responds before it hands the update to the handler.
WebhookRoute_RespondFirst(sec, header, update) ==
  IF ~WebhookAuthorized(sec, header)
  THEN [pc |-> "done", ev |-> <<Respond(401, "")>>]
  ELSE IF update.kind = "throws"
  THEN [pc |-> "done", ev |-> <<Respond(500, "")>>]
  ELSE [pc |-> ProcessUpdate(update).pc,
        ev |-> <<Respond(200, "")>> \o ProcessUpdate(update).ev]

\* The whole route callback: it is synchronous, so it is one step.
WebhookRoute(sec, header, update) ==
  IF ~WebhookAuthorized(sec, header)
  THEN [pc |-> "done", ev |-> <<Respond(401, "")>>]
  ELSE IF update.kind = "throws"
  THEN [pc |-> "done", ev |-> <<Respond(500, "")>>]
  ELSE [pc |-> ProcessUpdate(update).pc,
        ev |-> ProcessUpdate(update).ev \o <<Respond(200, "")>>]

(***************************************************************************)
(* Inputs of POST /resume-ready and POST /admin/resend                     *)
(***************************************************************************)
\* req.get('x-api-key')
ApiKeys == {Undefined, "wrong-key", BACKEND_SECRET}

\* req.body of /resume-ready.  An absent body reads as every field absent.
\* tg_pdf_id may be the number 0, which line 246 names explicitly.
Notices ==
  [userId : {Undefined, "532287234"},
   tg_pdf_id : {Undefined, "0", "file-id"},
   pdf_url : {Undefined, "https://cdn/r.pdf"},
   hrEmail : {Undefined, "hr@x.com"},
   hr_contact : {Undefined, "hc@y.com"},
   status : {Undefined, "completed", "failed"},
   jobId : {Undefined, "J1"}]

\* req.body of /admin/resend.
Resends ==
  [userId : {Undefined, "532287234"},
   tgPdfId : {Undefined, "file-id"},
   pdfUrl : {Undefined, "https://cdn/r.pdf"},
   caption : {Undefined, "Resume v2"}]

(***************************************************************************)
(* POST /resume-ready                                                      *)
(***************************************************************************)
\* const key = req.get('x-api-key') || ''; if (!key || key !== BACKEND_SECRET) reject
BackendAuthorized(key) == Truthy(Or(key, "")) /\ Or(key, "") = BACKEND_SECRET

\* body.tg_pdf_id || body.tg_pdf_id === 0 ? body.tg_pdf_id : null
TgPdfId(body) ==
  IF Truthy(body.tg_pdf_id) \/ body.tg_pdf_id = "0" THEN body.tg_pdf_id ELSE Null

\* body.pdf_url || null
PdfUrl(body) == Or(body.pdf_url, Null)

\* body.hrEmail || body.hr_contact || null
HrEmail(body) == Or(Or(body.hrEmail, body.hr_contact), Null)

\* body.status || 'completed'
Status(body) == Or(body.status, "completed")

\* body.jobId || null
JobId(body) == Or(body.jobId, Null)

\* Mutant: the failure message does not name the job.
FailedText_NoJob(jobId) ==
  <<"Resume generation failed for job ", "", ". Please try again or contact support.">>

\* `Resume generation failed for job ${jobId || ''}. Please try again or contact support.`
FailedText(jobId) ==
  <<"Resume generation failed for job ", Or(jobId, ""), ". Please try again or contact support.">>

\* hrEmail ? `Your resume (HR Contact: ${hrEmail})` : 'Your resume (generated).'
Caption(hrEmail) ==
  IF Truthy(hrEmail) THEN <<"Your resume (HR Contact: ", hrEmail, ")">>
  ELSE <<"Your resume (generated).">>

NoFileText == <<"Backend reported completion but did not provide a file.">>

\* `HR Contact found: ${hrEmail}`
HrText(hrEmail) == <<"HR Contact found: ", hrEmail>>

\* `Job ID: ${jobId}`
JobText(jobId) == <<"Job ID: ", jobId>>

DeliveryFailedText ==
  <<"Failed to send generated resume to your chat. The team has been notified.">>

\* The file the completed branch sends: the file id when truthy, else the URL
\* when truthy, else none (lines 266-280).
DocumentRef(body) ==
  IF Truthy(TgPdfId(body)) THEN TgPdfId(body)
  ELSE IF Truthy(PdfUrl(body)) THEN PdfUrl(body)
  ELSE Null

\* Lines 265-280: the first send of the completed branch.
DeliverFirst(body) ==
  IF Truthy(DocumentRef(body))
  THEN [pc |-> "awaitDoc",
        ev |-> <<SendDocument(body.userId, DocumentRef(body), Caption(HrEmail(body)))>>]
  ELSE [pc |-> "awaitApology", ev |-> <<SendMessage(body.userId, NoFileText)>>]

\* Lines 293-299: the catch of the delivery try-block starts the failure notice.
DeliveryCatch(body) ==
  [pc |-> "awaitDeliveryNotice", ev |-> <<SendMessage(body.userId, DeliveryFailedText)>>]

\* Mutant: the jobId message is started but not awaited before the response.
JobStep_NotAwaited(body) ==
  IF Truthy(JobId(body))
  THEN [pc |-> "awaitJob",
        ev |-> <<SendMessage(body.userId, JobText(JobId(body))), Respond(200, "{ok:true}")>>]
  ELSE [pc |-> "done", ev |-> <<Respond(200, "{ok:true}")>>]

\* Lines 288-292: the jobId message when a jobId is present, else the 200.
JobStep(body) ==
  IF Truthy(JobId(body))
  THEN [pc |-> "awaitJob", ev |-> <<SendMessage(body.userId, JobText(JobId(body)))>>]
  ELSE [pc |-> "done", ev |-> <<Respond(200, "{ok:true}")>>]

\* Mutant: the HR-contact message is sent only when a document was sent.
HrStep_OnlyWithDoc(body) ==
  IF Truthy(HrEmail(body)) /\ Truthy(DocumentRef(body))
  THEN [pc |-> "awaitHr", ev |-> <<SendMessage(body.userId, HrText(HrEmail(body)))>>]
  ELSE JobStep(body)

\* Lines 283-285: the HR-contact message when a contact is present.
HrStep(body) ==
  IF Truthy(HrEmail(body))
  THEN [pc |-> "awaitHr", ev |-> <<SendMessage(body.userId, HrText(HrEmail(body)))>>]
  ELSE JobStep(body)

\* Mutant: userId is validated before the key is checked.
ResumeReadyRoute_ValidateFirst(key, body) ==
  IF ~Truthy(body.userId)
  THEN [pc |-> "done", ev |-> <<Respond(400, "{error:missing userId}")>>]
  ELSE IF ~BackendAuthorized(key)
  THEN [pc |-> "done", ev |-> <<Respond(403, "")>>]
  ELSE IF Status(body) # "completed"
  THEN [pc |-> "awaitFailMsg",
        ev |-> <<SendMessage(body.userId, FailedText(JobId(body)))>>]
  ELSE DeliverFirst(body)

\* The synchronous part of the route, up to its first await or its response.
ResumeReadyRoute(key, body) ==
  IF ~BackendAuthorized(key)
  THEN [pc |-> "done", ev |-> <<Respond(403, "")>>]
  ELSE IF ~Truthy(body.userId)
  THEN [pc |-> "done", ev |-> <<Respond(400, "{error:missing userId}")>>]
  ELSE IF Status(body) # "completed"
  THEN [pc |-> "awaitFailMsg",
        ev |-> <<SendMessage(body.userId, FailedText(JobId(body)))>>]
  ELSE DeliverFirst(body)

\* Mutant: a rejected failure message is not caught, and no response is sent.
AfterFailMsg_Uncaught(body, res) ==
  IF res = "ok"
  THEN [pc |-> "done", ev |-> <<Respond(200, "{ok:true}")>>]
  ELSE [pc |-> "done", ev |-> <<>>]

\* After the failure message of line 259: 200, or the outer catch of line 303.
AfterFailMsg(body, res) ==
  IF res = "ok"
  THEN [pc |-> "done", ev |-> <<Respond(200, "{ok:true}")>>]
  ELSE [pc |-> "done", ev |-> <<Respond(500, "{error:internal error}")>>]

\* Mutant: the HR-contact message is dropped after the first send.
AfterFirst_SkipHr(body, res) == IF res = "ok" THEN JobStep(body) ELSE DeliveryCatch(body)

\* After the document send or the apology send.
AfterFirst(body, res) == IF res = "ok" THEN HrStep(body) ELSE DeliveryCatch(body)

\* Mutant: a failed HR-contact send is ignored and delivery goes on.
AfterHr_Continue(body, res) == JobStep(body)

\* After the HR-contact send.
AfterHr(body, res) == IF res = "ok" THEN JobStep(body) ELSE DeliveryCatch(body)

\* Mutant: a rejected jobId message is sent again.
AfterJob_Retry(body, res) ==
  IF res = "ok"
  THEN [pc |-> "done", ev |-> <<Respond(200, "{ok:true}")>>]
  ELSE JobStep(body)

\* After the jobId send.
AfterJob(body, res) ==
  IF res = "ok"
  THEN [pc |-> "done", ev |-> <<Respond(200, "{ok:true}")>>]
  ELSE DeliveryCatch(body)

\* After the failure notice of line 297: 500 whether it was delivered or not.
AfterDeliveryNotice(body, res) ==
  [pc |-> "done", ev |-> <<Respond(500, "{error:failed to deliver resume}")>>]

(***************************************************************************)
(* POST /admin/resend                                                      *)
(***************************************************************************)
\* Mutant: the URL is preferred over the file id.
AdminResendRoute_UrlFirst(key, body) ==
  IF ~BackendAuthorized(key)
  THEN [pc |-> "done", ev |-> <<Respond(403, "")>>]
  ELSE IF ~Truthy(body.userId)
  THEN [pc |-> "done", ev |-> <<Respond(400, "{error:missing userId}")>>]
  ELSE IF Truthy(body.pdfUrl)
  THEN [pc |-> "awaitResend",
        ev |-> <<SendDocument(body.userId, body.pdfUrl, <<Or(body.caption, "Resent resume")>>)>>]
  ELSE IF Truthy(body.tgPdfId)
  THEN [pc |-> "awaitResend",
        ev |-> <<SendDocument(body.userId, body.tgPdfId, <<Or(body.caption, "Resent resume")>>)>>]
  ELSE [pc |-> "done", ev |-> <<Respond(400, "{error:no file provided}")>>]

\* The synchronous part of the route.
AdminResendRoute(key, body) ==
  IF ~BackendAuthorized(key)
  THEN [pc |-> "done", ev |-> <<Respond(403, "")>>]
  ELSE IF ~Truthy(body.userId)
  THEN [pc |-> "done", ev |-> <<Respond(400, "{error:missing userId}")>>]
  ELSE IF Truthy(body.tgPdfId)
  THEN [pc |-> "awaitResend",
        ev |-> <<SendDocument(body.userId, body.tgPdfId, <<Or(body.caption, "Resent resume")>>)>>]
  ELSE IF Truthy(body.pdfUrl)
  THEN [pc |-> "awaitResend",
        ev |-> <<SendDocument(body.userId, body.pdfUrl, <<Or(body.caption, "Resent resume")>>)>>]
  ELSE [pc |-> "done", ev |-> <<Respond(400, "{error:no file provided}")>>]

\* After the document send of lines 322/324.
AfterResend(body, res) ==
  IF res = "ok"
  THEN [pc |-> "done", ev |-> <<Respond(200, "{ok:true}")>>]
  ELSE [pc |-> "done", ev |-> <<Respond(500, "{error:failed}")>>]

(***************************************************************************)
(* State machine                                                           *)
(***************************************************************************)
NoReq == [route |-> "none"]

Init ==
  /\ secret \in WebhookSecrets
  /\ req = [s \in Slots |-> NoReq]
  /\ pc = [s \in Slots |-> "idle"]
  /\ trace = [s \in Slots |-> <<>>]

\* Slot s moves to r.pc after performing the events r.ev.
Advance(s, r) ==
  /\ pc' = [pc EXCEPT ![s] = r.pc]
  /\ trace' = [trace EXCEPT ![s] = trace[s] \o r.ev]

\* The awaited call of slot s settles with res and the continuation r runs.
Resume(s, res, r) == Advance(s, [pc |-> r.pc, ev |-> <<Settled(res)>> \o r.ev])

\* A POST /tg-webhook request arrives.
TgWebhook(s, headers, updates) ==
  /\ pc[s] = "idle"
  /\ \E h \in headers, u \in updates :
       /\ req' = [req EXCEPT ![s] = [route |-> "tg", header |-> h, update |-> u]]
       /\ Advance(s, WebhookRoute(secret, h, u))
  /\ UNCHANGED secret

PromptSettles(s) ==
  /\ pc[s] = "awaitPrompt"
  /\ \E res \in SendOutcomes : Resume(s, res, AfterHint(req[s].update.message, res))
  /\ UNCHANGED <<secret, req>>

UsageSettles(s) ==
  /\ pc[s] = "awaitUsage"
  /\ \E res \in SendOutcomes : Resume(s, res, AfterHint(req[s].update.message, res))
  /\ UNCHANGED <<secret, req>>

\* Mutant: the handler keeps the message in a variable shared by all
\* invocations, so a later message replaces the one being handled.
AckSettles_SharedMsg(s) ==
  /\ pc[s] = "awaitAck"
  /\ \E res \in SendOutcomes :
       Resume(s, res,
              AfterAck(IF \E t \in Slots \ {s} : req[t].route = "tg"
                       THEN req[CHOOSE t \in Slots \ {s} : req[t].route = "tg"].update.message
                       ELSE req[s].update.message,
                       res))
  /\ UNCHANGED <<secret, req>>

AckSettles(s) ==
  /\ pc[s] = "awaitAck"
  /\ \E res \in SendOutcomes : Resume(s, res, AfterAck(req[s].update.message, res))
  /\ UNCHANGED <<secret, req>>

ApplySettles(s) ==
  /\ pc[s] = "awaitApply"
  /\ \E res \in PostOutcomes : Resume(s, res, AfterApply(req[s].update.message, res))
  /\ UNCHANGED <<secret, req>>

NoticeSettles(s) ==
  /\ pc[s] = "awaitNotice"
  /\ \E res \in SendOutcomes : Resume(s, res, AfterNotice(req[s].update.message, res))
  /\ UNCHANGED <<secret, req>>

\* Mutant: a notice identical to one already received is answered 200 without
\* being delivered again.
ResumeReady_Dedup(s, keys, bodies) ==
  /\ pc[s] = "idle"
  /\ \E k \in keys, b \in bodies :
       /\ req' = [req EXCEPT ![s] = [route |-> "ready", key |-> k, body |-> b]]
       /\ Advance(s, IF /\ BackendAuthorized(k)
                        /\ Truthy(b.userId)
                        /\ \E t \in Slots \ {s} :
                             req[t] = [route |-> "ready", key |-> k, body |-> b]
                     THEN [pc |-> "done", ev |-> <<Respond(200, "{ok:true}")>>]
                     ELSE ResumeReadyRoute(k, b))
  /\ UNCHANGED secret

\* A POST /resume-ready request arrives.
ResumeReady(s, keys, bodies) ==
  /\ pc[s] = "idle"
  /\ \E k \in keys, b \in bodies :
       /\ req' = [req EXCEPT ![s] = [route |-> "ready", key |-> k, body |-> b]]
       /\ Advance(s, ResumeReadyRoute(k, b))
  /\ UNCHANGED secret

FailMsgSettles(s) ==
  /\ pc[s] = "awaitFailMsg"
  /\ \E res \in SendOutcomes : Resume(s, res, AfterFailMsg(req[s].body, res))
  /\ UNCHANGED <<secret, req>>

DocSettles(s) ==
  /\ pc[s] = "awaitDoc"
  /\ \E res \in SendOutcomes : Resume(s, res, AfterFirst(req[s].body, res))
  /\ UNCHANGED <<secret, req>>

ApologySettles(s) ==
  /\ pc[s] = "awaitApology"
  /\ \E res \in SendOutcomes : Resume(s, res, AfterFirst(req[s].body, res))
  /\ UNCHANGED <<secret, req>>

HrSettles(s) ==
  /\ pc[s] = "awaitHr"
  /\ \E res \in SendOutcomes : Resume(s, res, AfterHr(req[s].body, res))
  /\ UNCHANGED <<secret, req>>

JobSettles(s) ==
  /\ pc[s] = "awaitJob"
  /\ \E res \in SendOutcomes : Resume(s, res, AfterJob(req[s].body, res))
  /\ UNCHANGED <<secret, req>>

DeliveryNoticeSettles(s) ==
  /\ pc[s] = "awaitDeliveryNotice"
  /\ \E res \in SendOutcomes : Resume(s, res, AfterDeliveryNotice(req[s].body, res))
  /\ UNCHANGED <<secret, req>>

\* A POST /admin/resend request arrives.
AdminResend(s, keys, bodies) ==
  /\ pc[s] = "idle"
  /\ \E k \in keys, b \in bodies :
       /\ req' = [req EXCEPT ![s] = [route |-> "resend", key |-> k, body |-> b]]
       /\ Advance(s, AdminResendRoute(k, b))
  /\ UNCHANGED secret

ResendSettles(s) ==
  /\ pc[s] = "awaitResend"
  /\ \E res \in SendOutcomes : Resume(s, res, AfterResend(req[s].body, res))
  /\ UNCHANGED <<secret, req>>

Next ==
  \E s \in Serial :
    \/ TgWebhook(s, SecretHeaders, Updates)
    \/ PromptSettles(s)
    \/ UsageSettles(s)
    \/ AckSettles(s)
    \/ ApplySettles(s)
    \/ NoticeSettles(s)
    \/ ResumeReady(s, ApiKeys, Notices)
    \/ FailMsgSettles(s)
    \/ DocSettles(s)
    \/ ApologySettles(s)
    \/ HrSettles(s)
    \/ JobSettles(s)
    \/ DeliveryNoticeSettles(s)
    \/ AdminResend(s, ApiKeys, Resends)
    \/ ResendSettles(s)

Spec == Init /\ [][Next]_vars

\* Updates that carry a job description, from either sender in either chat.
JobUpdates ==
  [kind : {"message"},
   message : [from : Senders \ {NoFrom}, chat : Chats \ {NoChat}, hasText : {TRUE},
              text : {<<"q", "a">>, <<"/", "a", "p", "p", "l", "y", " ", "d", "e", "v">>}]]

\* Two messages in flight at once: the steps of their handlers interleave at
\* every await.
NextMessages ==
  \E s \in Slots :
    \/ TgWebhook(s, {"hook-secret"}, JobUpdates)
    \/ AckSettles(s)
    \/ ApplySettles(s)
    \/ NoticeSettles(s)

SpecMessages == Init /\ [][NextMessages]_vars

\* The same /resume-ready request is sent again while or after the first one
\* is served: same key, same body.
ReplayReady(s) ==
  \E t \in Slots \ {s} :
    /\ req[t].route = "ready"
    /\ ResumeReady(s, {req[t].key}, {req[t].body})

\* An authenticated /resume-ready request arrives.
FirstReady(s) == s \in Serial /\ ResumeReady(s, {BACKEND_SECRET}, Notices)

\* An authenticated notice and its replay, their steps interleaving at every
\* await.
NextReplay ==
  \E s \in Slots :
    \/ FirstReady(s)
    \/ ReplayReady(s)
    \/ FailMsgSettles(s)
    \/ DocSettles(s)
    \/ ApologySettles(s)
    \/ HrSettles(s)
    \/ JobSettles(s)
    \/ DeliveryNoticeSettles(s)

SpecReplay == Init /\ [][NextReplay]_vars

\* A messaging call awaited by /resume-ready resolves or rejects.
ReadySettles ==
  \E s \in Serial :
    \/ FailMsgSettles(s)
    \/ DocSettles(s)
    \/ ApologySettles(s)
    \/ HrSettles(s)
    \/ JobSettles(s)
    \/ DeliveryNoticeSettles(s)

\* Every messaging call of /resume-ready eventually settles.
SpecSettling == Spec /\ WF_vars(ReadySettles)

(***************************************************************************)
(* Reading a trace                                                         *)
(***************************************************************************)
IsCall(ev) == ev.e = "call"

IsPost(ev) == ev.e = "call" /\ ev.op = "post"

IsDocument(ev) == ev.e = "call" /\ ev.op = "sendDocument"

IsSettled(ev) == ev.e = "settled"

IsRespond(ev) == ev.e = "respond"

\* The outbound calls of slot s, in the order they were started.
Calls(s) == SelectSeq(trace[s], IsCall)

\* The HTTP responses sent for the request of slot s.
Responses(s) == SelectSeq(trace[s], IsRespond)

\* Every call of slot s that has settled so far resolved.
AllOk(s) == \A i \in 1..Len(trace[s]) : IsSettled(trace[s][i]) => trace[s][i].res = "ok"

\* The number of occurrences of event ev in the trace of slot s.
Count(s, ev) == Cardinality({i \in 1..Len(trace[s]) : trace[s][i] = ev})

\* Slot s holds a /tg-webhook request whose update reached the message handler.
Handled(s) ==
  /\ req[s].route = "tg"
  /\ secret = "" \/ req[s].header = secret
  /\ req[s].update.kind = "message"
  /\ req[s].update.message.from # NoFrom
  /\ req[s].update.message.chat # NoChat

\* The text of a message is absent, empty or made of white space only.
Blank(msg) == ~msg.hasText \/ \A i \in 1..Len(msg.text) : msg.text[i] \in WhiteSpace

\* Slot s holds a /resume-ready request that passed the key and userId checks.
Accepted(s) ==
  /\ req[s].route = "ready"
  /\ req[s].key = BACKEND_SECRET
  /\ req[s].body.userId # Undefined

\* Slot s holds an accepted notice of the completed branch (status defaults to completed).
Completed(s) == Accepted(s) /\ req[s].body.status \in {Undefined, "completed"}

\* The HR contact of a notice: hrEmail, else hr_contact.
Contact(body) == IF body.hrEmail # Undefined THEN body.hrEmail ELSE body.hr_contact

(***************************************************************************)
(* C1                                                                      *)
(***************************************************************************)
\* C1 (as stated): every handled message whose trimmed text is non-empty, with
\* or without the /apply prefix, gets exactly one acknowledgement, started
\* before any POST /apply of that message.
C1_AckForEveryText ==
  \A s \in Slots :
    (Handled(s) /\ ~Blank(req[s].update.message)) =>
      /\ Count(s, SendMessage(req[s].update.message.chat.id, AckText)) = 1
      /\ \A k \in 1..Len(trace[s]) :
           IsPost(trace[s][k]) =>
             \E i \in 1..(k - 1) :
               trace[s][i] = SendMessage(req[s].update.message.chat.id, AckText)

\* C1 (amended): every handled message whose job description (the trimmed
\* text, a leading /apply removed and trimmed again) is non-empty gets exactly
\* one acknowledgement, started before any POST /apply of that message; a
\* bare /apply gets none.
C1_AckOnceBeforeSubmit ==
  \A s \in Slots :
    Handled(s) =>
      /\ Count(s, SendMessage(req[s].update.message.chat.id, AckText))
           = IF JdText(MsgText(req[s].update.message)) # <<>> THEN 1 ELSE 0
      /\ \A k \in 1..Len(trace[s]) :
           IsPost(trace[s][k]) =>
             \E i \in 1..(k - 1) :
               trace[s][i] = SendMessage(req[s].update.message.chat.id, AckText)

\* A message with the /apply prefix was acknowledged and its POST has started.
C1_Witness ==
  \E s \in Slots :
    /\ Handled(s)
    /\ StartsWith(req[s].update.message.text, ApplyCmd)
    /\ pc[s] = "awaitApply"
    /\ IsPost(trace[s][Len(trace[s])])

(***************************************************************************)
(* C2                                                                      *)
(***************************************************************************)
IsPrefix(a, b) == Len(a) <= Len(b) /\ a = SubSeq(b, 1, Len(a))

\* The file a notice delivers, as lines 266 and 271 test it: a truthy file id,
\* else a truthy URL.
Ref(body) == IF Truthy(body.tg_pdf_id) THEN body.tg_pdf_id ELSE body.pdf_url

\* The full delivery of a notice with a file, an HR contact and a jobId.
FullDelivery(body) ==
  << SendDocument(body.userId, Ref(body),
                  <<"Your resume (HR Contact: ", Contact(body), ")">>),
     Settled("ok"),
     SendMessage(body.userId, <<"HR Contact found: ", Contact(body)>>),
     Settled("ok"),
     SendMessage(body.userId, <<"Job ID: ", body.jobId>>),
     Settled("ok"),
     Respond(200, "{ok:true}") >>

\* C2: a completed notice with a usable document reference, an HR contact and
\* a jobId, all of whose sends succeed, performs exactly sendDocument (caption
\* with the contact), sendMessage (contact), sendMessage (jobId), each settled
\* before the next starts, then answers 200 {ok:true}; every intermediate
\* state is a prefix of that sequence.
C2_ThreeSendsInOrder ==
  \A s \in Slots :
    ( /\ Completed(s)
      /\ Truthy(Ref(req[s].body))
      /\ Contact(req[s].body) # Undefined
      /\ req[s].body.jobId # Undefined
      /\ AllOk(s) ) =>
        /\ IsPrefix(trace[s], FullDelivery(req[s].body))
        /\ pc[s] = "done" => trace[s] = FullDelivery(req[s].body)

\* A notice with a file id, hrEmail and jobId was delivered in full.
C2_Witness ==
  \E s \in Slots :
    /\ Completed(s)
    /\ req[s].body.tg_pdf_id = "file-id"
    /\ req[s].body.hrEmail # Undefined
    /\ req[s].body.jobId # Undefined
    /\ pc[s] = "done"
    /\ AllOk(s)
    /\ Len(Calls(s)) = 3

(***************************************************************************)
(* C3                                                                      *)
(***************************************************************************)
\* Position k of the trace of slot s is its first rejected call.
FirstFailure(s, k) ==
  /\ IsSettled(trace[s][k])
  /\ trace[s][k].res # "ok"
  /\ \A i \in 1..(k - 1) : IsSettled(trace[s][i]) => trace[s][i].res = "ok"

\* C3: in the completed branch the first rejected send is followed by exactly
\* the delivery-failure message to userId, its settlement (either way) and the
\* response 500 {error:"failed to deliver resume"}, and by nothing else.
C3_FirstFailureEndsDelivery ==
  \A s \in Slots :
    Completed(s) =>
      \A k \in 1..Len(trace[s]) :
        FirstFailure(s, k) =>
          LET rest == SubSeq(trace[s], k + 1, Len(trace[s]))
          IN  /\ Len(rest) \in 1..3
              /\ rest[1] = SendMessage(req[s].body.userId, DeliveryFailedText)
              /\ Len(rest) >= 2 => IsSettled(rest[2])
              /\ Len(rest) >= 3 => rest[3] = Respond(500, "{error:failed to deliver resume}")
              /\ pc[s] = "done" <=> Len(rest) = 3

\* The HR-contact send failed after a successful document send, the failure
\* notice failed too, and the request was answered.
C3_Witness ==
  \E s \in Slots :
    /\ Completed(s)
    /\ pc[s] = "done"
    /\ Len(trace[s]) = 7
    /\ IsDocument(trace[s][1])
    /\ trace[s][2] = Settled("ok")
    /\ trace[s][4] = Settled("error")
    /\ trace[s][6] = Settled("error")

(***************************************************************************)
(* C4                                                                      *)
(***************************************************************************)
\* C4: a /resume-ready request with a wrong or missing key is answered 403 and
\* nothing else, also when userId is missing; one with the right key and no
\* userId is answered 400 {error:"missing userId"} and nothing else.  No
\* messaging call is made for either.
C4_RejectedMakesNoCalls ==
  \A s \in Slots :
    req[s].route = "ready" =>
      /\ req[s].key # BACKEND_SECRET => trace[s] = <<Respond(403, "")>>
      /\ (req[s].key = BACKEND_SECRET /\ req[s].body.userId = Undefined) =>
           trace[s] = <<Respond(400, "{error:missing userId}")>>

\* A request with a wrong key and no userId was answered 403.
C4_Witness ==
  \E s \in Slots :
    /\ req[s].route = "ready"
    /\ req[s].key = "wrong-key"
    /\ req[s].body.userId = Undefined
    /\ pc[s] = "done"
    /\ Responses(s) = <<Respond(403, "")>>

(***************************************************************************)
(* C5                                                                      *)
(***************************************************************************)
\* The number of events among the first n of slot s that satisfy P.
NumBefore(s, n, P(_)) == Cardinality({i \in 1..(n - 1) : P(trace[s][i])})

\* C5: on /resume-ready and /admin/resend the response is the last event of
\* the request: every send started before it has settled, none starts after
\* it, and there is one response at most.
C5_ResponseAfterAllSends ==
  \A s \in Slots :
    req[s].route \in {"ready", "resend"} =>
      /\ Len(Responses(s)) <= 1
      /\ \A i \in 1..Len(trace[s]) :
           IsRespond(trace[s][i]) =>
             /\ i = Len(trace[s])
             /\ NumBefore(s, i, IsCall) = NumBefore(s, i, IsSettled)
      /\ pc[s] = "done" <=> Len(Responses(s)) = 1

\* An /admin/resend request was answered after its document send settled.
C5_Witness ==
  \E s \in Slots :
    /\ req[s].route = "resend"
    /\ pc[s] = "done"
    /\ Len(trace[s]) = 3
    /\ IsDocument(trace[s][1])
    /\ IsSettled(trace[s][2])
    /\ IsRespond(trace[s][3])

(***************************************************************************)
(* C6                                                                      *)
(***************************************************************************)
\* C6: a /tg-webhook request is answered exactly once, when it arrives; the
\* response is already sent when the POST /apply starts, and it is the same
\* 200 whatever the outcome of the POST.
C6_ResponseDecoupled ==
  \A s \in Slots :
    req[s].route = "tg" =>
      /\ Len(Responses(s)) = 1
      /\ \A k \in 1..Len(trace[s]) :
           IsPost(trace[s][k]) =>
             /\ \E i \in 1..(k - 1) : trace[s][i] = Respond(200, "")
             /\ Responses(s) = <<Respond(200, "")>>

\* The POST /apply of a message timed out after the webhook was answered 200.
C6_Witness ==
  \E s \in Slots :
    /\ req[s].route = "tg"
    /\ \E k \in 1..Len(trace[s]) : trace[s][k] = Settled("timeout")
    /\ Responses(s) = <<Respond(200, "")>>

(***************************************************************************)
(* C7                                                                      *)
(***************************************************************************)
\* Slot s holds an accepted notice whose status is given and is not completed.
Failed(s) == Accepted(s) /\ req[s].body.status \notin {Undefined, "completed"}

\* The only call of slot s is the failure message to userId, naming the jobId
\* when the notice has one.
OnlyFailureMessage(s) ==
  /\ Len(Calls(s)) = 1
  /\ Calls(s)[1].op = "sendMessage"
  /\ Calls(s)[1].to = req[s].body.userId
  /\ Calls(s)[1].arg[1] = "Resume generation failed for job "
  /\ req[s].body.jobId # Undefined => Calls(s)[1].arg[2] = req[s].body.jobId

\* C7 (as stated): a non-completed notice sends exactly one failure message and
\* no other message or document, and is answered 200 {ok:true}.
C7_FailureNoticeAlways200 ==
  \A s \in Slots :
    Failed(s) =>
      /\ OnlyFailureMessage(s)
      /\ pc[s] = "done" => Responses(s) = <<Respond(200, "{ok:true}")>>

\* C7 (amended): a non-completed notice sends exactly one failure message and
\* no other message or document; it is answered 200 {ok:true} when that send
\* succeeds and 500 {error:"internal error"} when it fails.
C7_FailureNoticeOnce ==
  \A s \in Slots :
    Failed(s) =>
      /\ OnlyFailureMessage(s)
      /\ pc[s] = "done" =>
           \/ /\ AllOk(s)
              /\ Responses(s) = <<Respond(200, "{ok:true}")>>
           \/ /\ ~AllOk(s)
              /\ Responses(s) = <<Respond(500, "{error:internal error}")>>

\* A failed notice with a jobId was relayed and answered 200.
C7_Witness ==
  \E s \in Slots :
    /\ Failed(s)
    /\ req[s].body.jobId = "J1"
    /\ pc[s] = "done"
    /\ AllOk(s)

(***************************************************************************)
(* C8                                                                      *)
(***************************************************************************)
\* Slot s holds a completed notice with neither a file id nor a URL.
NoFile(s) ==
  /\ Completed(s)
  /\ req[s].body.tg_pdf_id = Undefined
  /\ req[s].body.pdf_url = Undefined

\* The sends of a notice without a file: the apology, then the HR contact and
\* the jobId when present.
ApologyDelivery(body) ==
  << SendMessage(body.userId, NoFileText) >>
    \o (IF Contact(body) # Undefined
        THEN <<SendMessage(body.userId, <<"HR Contact found: ", Contact(body)>>)>> ELSE <<>>)
    \o (IF body.jobId # Undefined
        THEN <<SendMessage(body.userId, <<"Job ID: ", body.jobId>>)>> ELSE <<>>)

\* C8 (as stated): a completed notice without a file sends no document; it
\* sends the apology, then the HR contact and the jobId when present, and is
\* answered 200 {ok:true}.
C8_ApologyAlways200 ==
  \A s \in Slots :
    NoFile(s) =>
      /\ SelectSeq(trace[s], IsDocument) = <<>>
      /\ pc[s] = "done" =>
           /\ Calls(s) = ApologyDelivery(req[s].body)
           /\ Responses(s) = <<Respond(200, "{ok:true}")>>

\* C8 (amended): a completed notice without a file sends no document and
\* always starts with the apology.  While every send resolves, the calls are
\* the apology, then the HR contact and the jobId when present, and the answer
\* is 200 {ok:true}.  When a send is rejected, the calls are those up to and
\* including the rejected one, then one delivery-failure message to userId,
\* and the answer is 500 {error:"failed to deliver resume"}.  Without HR
\* contact and jobId the apology is the only call when it resolves; when it is
\* rejected the delivery-failure message is the only other call.
C8_ApologyInPlaceOfDocument ==
  \A s \in Slots :
    NoFile(s) =>
      LET body == req[s].body
          D    == ApologyDelivery(body)
          fail == SendMessage(body.userId, DeliveryFailedText)
      IN  /\ SelectSeq(trace[s], IsDocument) = <<>>
          /\ trace[s][1] = SendMessage(body.userId, NoFileText)
          /\ AllOk(s) => IsPrefix(Calls(s), D)
          /\ (AllOk(s) /\ pc[s] = "done") =>
               /\ Calls(s) = D
               /\ Responses(s) = <<Respond(200, "{ok:true}")>>
          /\ \A k \in 1..Len(trace[s]) :
               FirstFailure(s, k) =>
                 /\ k % 2 = 0
                 /\ k \div 2 <= Len(D)
                 /\ Calls(s) = SubSeq(D, 1, k \div 2) \o <<fail>>
                 /\ trace[s][k + 1] = fail
                 /\ Responses(s) \in {<<>>, <<Respond(500, "{error:failed to deliver resume}")>>}
          /\ (~AllOk(s) /\ pc[s] = "done") =>
               Responses(s) = <<Respond(500, "{error:failed to deliver resume}")>>
          /\ (Contact(body) = Undefined /\ body.jobId = Undefined /\ pc[s] = "done") =>
               Calls(s) = IF trace[s][2] = Settled("ok") THEN D ELSE <<D[1], fail>>

\* A notice without a file but with an HR contact was answered after the
\* apology and the contact message.
C8_Witness ==
  \E s \in Slots :
    /\ NoFile(s)
    /\ Contact(req[s].body) # Undefined
    /\ req[s].body.jobId = Undefined
    /\ pc[s] = "done"
    /\ AllOk(s)
    /\ Len(Calls(s)) = 2

(***************************************************************************)
(* C9                                                                      *)
(***************************************************************************)
\* C9 (as stated): a completed notice performs at most one sendDocument; it
\* sends tg_pdf_id whenever the notice has one, pdf_url only when it has no
\* tg_pdf_id, and no document when it has neither.
C9_FileIdBeforeUrl ==
  \A s \in Slots :
    Completed(s) =>
      /\ Len(SelectSeq(trace[s], IsDocument)) <= 1
      /\ req[s].body.tg_pdf_id # Undefined =>
           /\ IsDocument(trace[s][1])
           /\ trace[s][1].arg = <<req[s].body.tg_pdf_id>>
      /\ (req[s].body.tg_pdf_id = Undefined /\ req[s].body.pdf_url # Undefined) =>
           /\ IsDocument(trace[s][1])
           /\ trace[s][1].arg = <<req[s].body.pdf_url>>
      /\ (req[s].body.tg_pdf_id = Undefined /\ req[s].body.pdf_url = Undefined) =>
           SelectSeq(trace[s], IsDocument) = <<>>

(***************************************************************************)
(* C10                                                                     *)
(***************************************************************************)
\* C10: a handled message whose text is empty, blank or absent makes exactly
\* one call, the instruction prompt to its chat: no acknowledgement and no
\* POST /apply.
C10_BlankGetsPromptOnly ==
  \A s \in Slots :
    (Handled(s) /\ Blank(req[s].update.message)) =>
      Calls(s) = <<SendMessage(req[s].update.message.chat.id, PromptText)>>

\* A message of white space only was answered with the prompt, which settled.
C10_Witness ==
  \E s \in Slots :
    /\ Handled(s)
    /\ req[s].update.message.hasText
    /\ req[s].update.message.text # <<>>
    /\ Blank(req[s].update.message)
    /\ pc[s] = "done"
    /\ Len(trace[s]) = 3

(***************************************************************************)
(* C11                                                                     *)
(***************************************************************************)
\* C11: what follows the start of the POST /apply of a message is its
\* settlement and, when it was rejected (non-2xx, timeout or network error),
\* exactly one failure notice to the chat that got the acknowledgement and the
\* settlement of that notice, whatever it is; when the POST resolved, nothing
\* follows.  No response and no other call follows in either case.
C11_OneNoticeOnSubmitFailure ==
  \A s \in Slots :
    req[s].route = "tg" =>
      \A k \in 1..Len(trace[s]) :
        IsPost(trace[s][k]) =>
          LET rest == SubSeq(trace[s], k + 1, Len(trace[s]))
          IN  /\ Len(rest) = 0 <=> pc[s] = "awaitApply"
              /\ Len(rest) >= 1 => IsSettled(rest[1])
              /\ (Len(rest) >= 1 /\ rest[1].res = "ok") =>
                   (Len(rest) = 1 /\ pc[s] = "done")
              /\ (Len(rest) >= 1 /\ rest[1].res # "ok") =>
                   /\ Len(rest) \in 2..3
                   /\ rest[2] = SendMessage(trace[s][1].to, SubmitFailedText)
                   /\ trace[s][1] = SendMessage(req[s].update.message.chat.id, AckText)
                   /\ Len(rest) = 3 => IsSettled(rest[3])
                   /\ pc[s] = "done" <=> Len(rest) = 3

\* The POST failed on the network, the failure notice failed too, and the
\* handler ended.
C11_Witness ==
  \E s \in Slots :
    /\ req[s].route = "tg"
    /\ pc[s] = "done"
    /\ Len(trace[s]) = 7
    /\ IsPost(trace[s][4])
    /\ trace[s][5] = Settled("network")
    /\ trace[s][7] = Settled("error")

(***************************************************************************)
(* C12                                                                     *)
(***************************************************************************)
\* C12: with a webhook secret configured, a request whose header is missing or
\* different is answered 401 and nothing else happens; a request with the
\* right header, and every request when no secret is configured, is processed:
\* it is answered 200 unless processing throws (500), and a message with
\* sender and chat makes the handler send its first message.
C12_ProcessedIffSecretMatches ==
  \A s \in Slots :
    req[s].route = "tg" =>
      /\ (secret # "" /\ req[s].header # secret) => trace[s] = <<Respond(401, "")>>
      /\ (secret = "" \/ req[s].header = secret) =>
           /\ req[s].update.kind # "throws" => Responses(s) = <<Respond(200, "")>>
           /\ req[s].update.kind = "throws" => trace[s] = <<Respond(500, "")>>
           /\ Handled(s) =>
                (Len(trace[s]) >= 2 /\ IsCall(trace[s][1]) /\ trace[s][2] = Respond(200, ""))

\* A job description arrived without the configured secret header and was
\* answered 401.
C12_Witness ==
  \E s \in Slots :
    /\ req[s].route = "tg"
    /\ secret = "hook-secret"
    /\ req[s].header = Undefined
    /\ req[s].update.kind = "message"
    /\ req[s].update.message.from # NoFrom
    /\ req[s].update.message.chat # NoChat
    /\ ~Blank(req[s].update.message)
    /\ trace[s] = <<Respond(401, "")>>

(***************************************************************************)
(* C13                                                                     *)
(***************************************************************************)
\* The one document /admin/resend sends: the file id when given, else the URL,
\* with the given caption or 'Resent resume'.
ResendDocument(body) ==
  SendDocument(body.userId,
               IF body.tgPdfId # Undefined THEN body.tgPdfId ELSE body.pdfUrl,
               <<IF body.caption # Undefined THEN body.caption ELSE "Resent resume">>)

\* C13: /admin/resend makes no call on a bad key (403), a missing userId (400)
\* or a body with neither file id nor URL (400 {error:"no file provided"});
\* otherwise its only call is one sendDocument, the file id preferred, and it
\* answers 200 {ok:true} when the send resolves and 500 {error:"failed"} when
\* it is rejected, without any sendMessage.
C13_ResendOnlyOneDocument ==
  \A s \in Slots :
    req[s].route = "resend" =>
      IF req[s].key # BACKEND_SECRET THEN trace[s] = <<Respond(403, "")>>
      ELSE IF req[s].body.userId = Undefined
      THEN trace[s] = <<Respond(400, "{error:missing userId}")>>
      ELSE IF req[s].body.tgPdfId = Undefined /\ req[s].body.pdfUrl = Undefined
      THEN trace[s] = <<Respond(400, "{error:no file provided}")>>
      ELSE /\ IsPrefix(<<ResendDocument(req[s].body)>>, trace[s])
           /\ Len(trace[s]) \in {1, 3}
           /\ pc[s] = "done" <=> Len(trace[s]) = 3
           /\ Len(trace[s]) = 3 =>
                \/ /\ trace[s][2] = Settled("ok")
                   /\ trace[s][3] = Respond(200, "{ok:true}")
                \/ /\ trace[s][2] = Settled("error")
                   /\ trace[s][3] = Respond(500, "{error:failed}")

\* A resend with both a file id and a URL failed and was answered 500.
C13_Witness ==
  \E s \in Slots :
    /\ req[s].route = "resend"
    /\ req[s].body.tgPdfId # Undefined
    /\ req[s].body.pdfUrl # Undefined
    /\ pc[s] = "done"
    /\ Len(trace[s]) = 3
    /\ trace[s][2] = Settled("error")
    /\ Calls(s) = <<ResendDocument(req[s].body)>>

(***************************************************************************)
(* C14                                                                     *)
(***************************************************************************)
\* C14: when an accepted /resume-ready request and its replay (same key, same
\* body) have both ended with every send resolved, the replay made the same
\* calls in the same order as the first request and both were answered
\* 200 {ok:true}.
C14_ReplaySameSends ==
  \A s, t \in Slots :
    ( /\ s # t
      /\ Accepted(s)
      /\ req[t] = req[s]
      /\ pc[s] = "done" /\ pc[t] = "done"
      /\ AllOk(s) /\ AllOk(t) ) =>
        /\ Calls(t) = Calls(s)
        /\ Responses(s) = <<Respond(200, "{ok:true}")>>
        /\ Responses(t) = <<Respond(200, "{ok:true}")>>

\* A notice with a file, an HR contact and a jobId was delivered twice, three
\* sends each.
C14_Witness ==
  /\ Accepted(1)
  /\ req[2] = req[1]
  /\ pc[1] = "done" /\ pc[2] = "done"
  /\ AllOk(1) /\ AllOk(2)
  /\ Len(Calls(1)) = 3
  /\ Len(Calls(2)) = 3

(***************************************************************************)
(* C15                                                                     *)
(***************************************************************************)
\* C15: within one request no outbound call is made twice: the calls of a
\* request are pairwise different, with one POST /apply and one document send
\* at most, whether calls were rejected or not.
C15_NoCallTwice ==
  \A s \in Slots :
    /\ \A i, j \in 1..Len(Calls(s)) : i # j => Calls(s)[i] # Calls(s)[j]
    /\ Len(SelectSeq(trace[s], IsPost)) <= 1
    /\ Len(SelectSeq(trace[s], IsDocument)) <= 1

\* The document send of a notice was rejected and the request ended with that
\* one document send.
C15_Witness ==
  \E s \in Slots :
    /\ Completed(s)
    /\ pc[s] = "done"
    /\ Len(trace[s]) >= 2
    /\ IsDocument(trace[s][1])
    /\ trace[s][2] = Settled("error")
    /\ Len(SelectSeq(trace[s], IsDocument)) = 1

(***************************************************************************)
(* C16                                                                     *)
(***************************************************************************)
\* C16: when every messaging call settles, every /resume-ready request ends
\* with exactly one response, and at no time has it more than one.
C16_ExactlyOneResponse ==
  /\ [](\A s \in Slots : req[s].route = "ready" => Len(Responses(s)) <= 1)
  /\ \A s \in Slots :
       (req[s].route = "ready") ~> (pc[s] = "done" /\ Len(Responses(s)) = 1)

\* The failure message of a non-completed notice was rejected and the request
\* was answered 500 {error:"internal error"}.
C16_Witness ==
  \E s \in Slots :
    /\ Failed(s)
    /\ pc[s] = "done"
    /\ Len(trace[s]) = 3
    /\ trace[s][2] = Settled("error")
    /\ trace[s][3] = Respond(500, "{error:internal error}")

(***************************************************************************)
(* C17                                                                     *)
(***************************************************************************)
\* The results of the calls of slot s that have settled, in order.
Outcomes(s) ==
  [i \in 1..Len(SelectSeq(trace[s], IsSettled)) |-> SelectSeq(trace[s], IsSettled)[i].res]

\* What the handling of job message msg has done once its calls have settled
\* with the results o: acknowledgement, 200, then the POST when the
\* acknowledgement resolved, then the failure notice when the POST was rejected.
MessageRun(msg, o) ==
  <<SendMessage(msg.chat.id, AckText), Respond(200, "")>>
  \o (IF Len(o) = 0 THEN <<>>
      ELSE <<Settled(o[1])>>
           \o (IF o[1] # "ok" THEN <<>>
               ELSE <<PostApply(msg.from.id, JdText(MsgText(msg)), Username(msg), msg.chat.id)>>
                    \o (IF Len(o) = 1 THEN <<>>
                        ELSE <<Settled(o[2])>>
                             \o (IF o[2] = "ok" THEN <<>>
                                 ELSE <<SendMessage(msg.chat.id, SubmitFailedText)>>
                                      \o (IF Len(o) = 2 THEN <<>>
                                          ELSE <<Settled(o[3])>>)))))

\* C17: with two job messages in flight, what has happened for each is what
\* its own message and the results of its own calls determine: its own
\* acknowledgement, then at most one POST with its own jd, sender and chat
\* after that acknowledgement resolved, then a failure notice to its own chat
\* only when its own POST was rejected; and its handler is where its own trace
\* ends.
C17_MessagesIndependent ==
  \A s \in Slots :
    req[s].route = "tg" =>
      /\ trace[s] = MessageRun(req[s].update.message, Outcomes(s))
      /\ pc[s] = "awaitAck" <=> Len(trace[s]) = 2
      /\ pc[s] = "awaitApply" <=> IsPost(trace[s][Len(trace[s])])
      /\ pc[s] = "awaitNotice" <=>
           trace[s][Len(trace[s])] = SendMessage(req[s].update.message.chat.id, SubmitFailedText)

\* Two messages with different job descriptions from different chats are in
\* flight: the POST of the first timed out and its notice was sent, the POST
\* of the second resolved.
C17_Witness ==
  /\ req[1].route = "tg" /\ req[2].route = "tg"
  /\ req[1].update.message.chat # req[2].update.message.chat
  /\ req[1].update.message.text # req[2].update.message.text
  /\ Len(trace[1]) = 6
  /\ trace[1][5] = Settled("timeout")
  /\ trace[1][6].to = req[1].update.message.chat.id
  /\ Len(trace[2]) = 5
  /\ trace[2][4].arg # trace[1][4].arg
  /\ trace[2][5] = Settled("ok")

(***************************************************************************)
(* C18                                                                     *)
(***************************************************************************)
\* Slot s holds a handled message that carries a job description.
JobMessage(s) == Handled(s) /\ Classify(req[s].update.message) = "ack"

\* C18 (as stated): for a job message the 200 of /tg-webhook is sent after the
\* acknowledgement has been sent to the chat, that is after its send has
\* completed, and before the POST /apply.
C18_ResponseAfterAckSent ==
  \A s \in Slots :
    JobMessage(s) =>
      \A k \in 1..Len(trace[s]) :
        IsRespond(trace[s][k]) =>
          /\ \E i \in 1..(k - 1) :
               /\ trace[s][i] = SendMessage(req[s].update.message.chat.id, AckText)
               /\ i + 1 < k
               /\ trace[s][i + 1] = Settled("ok")
          /\ \A i \in 1..(k - 1) : ~IsPost(trace[s][i])

\* C18: for a job message the 200 of /tg-webhook is sent right after the
\* acknowledgement send has been started, before that send settles and before
\* the POST /apply starts.
C18_ResponseAfterAckStarted ==
  \A s \in Slots :
    JobMessage(s) =>
      /\ Len(trace[s]) >= 2
      /\ trace[s][1] = SendMessage(req[s].update.message.chat.id, AckText)
      /\ trace[s][2] = Respond(200, "")
      /\ \A k \in 1..Len(trace[s]) :
           (IsSettled(trace[s][k]) \/ IsPost(trace[s][k])) => k > 2

\* A job message was answered 200, its acknowledgement resolved afterwards and
\* its POST started.
C18_Witness ==
  \E s \in Slots :
    /\ JobMessage(s)
    /\ Len(trace[s]) = 4
    /\ trace[s][2] = Respond(200, "")
    /\ trace[s][3] = Settled("ok")
    /\ IsPost(trace[s][4])

(***************************************************************************)
(* C19                                                                     *)
(***************************************************************************)
\* The text of the message of slot s with surrounding white space removed.
Trimmed(s) ==
  Trim(IF req[s].update.message.hasText THEN req[s].update.message.text ELSE <<>>)

\* What is left of text t, which begins with /apply, after that prefix is cut
\* off and the rest is trimmed.
Remainder(t) == Trim(SubSeq(t, Len(ApplyCmd) + 1, Len(t)))

\* C19: a handled message whose trimmed text begins with /apply and has an
\* empty remainder gets the usage hint as its only call; with a non-empty
\* remainder the POST started after the acknowledgement carries that remainder
\* as jd; a non-empty trimmed text without the prefix is carried whole.
C19_JdIsRemainderOrText ==
  \A s \in Slots :
    (Handled(s) /\ Trimmed(s) # <<>>) =>
      LET t  == Trimmed(s)
          jd == IF StartsWith(t, ApplyCmd) THEN Remainder(t) ELSE t
      IN  IF jd = <<>>
          THEN /\ Calls(s) = <<SendMessage(req[s].update.message.chat.id, UsageText)>>
               /\ pc[s] \in {"awaitUsage", "done"}
          ELSE /\ trace[s][1] = SendMessage(req[s].update.message.chat.id, AckText)
               /\ \A k \in 1..Len(trace[s]) : IsPost(trace[s][k]) => trace[s][k].arg = jd
               /\ (Len(trace[s]) >= 3 /\ trace[s][3] = Settled("ok")) =>
                    (Len(trace[s]) >= 4 /\ IsPost(trace[s][4]))

\* The text "/apply /apply" was submitted as the job description "/apply".
C19_Witness ==
  \E s \in Slots :
    /\ Handled(s)
    /\ req[s].update.message.text =
         <<"/", "a", "p", "p", "l", "y", " ", "/", "a", "p", "p", "l", "y">>
    /\ Len(trace[s]) >= 4
    /\ IsPost(trace[s][4])
    /\ trace[s][4].arg = <<"/", "a", "p", "p", "l", "y">>

(***************************************************************************)
(* C20                                                                     *)
(***************************************************************************)
\* C20: a POST /apply is started only right after the acknowledgement of the
\* message resolved; when the acknowledgement is rejected the handler ends
\* there, with no POST and no further message.
C20_SubmitOnlyAfterAckResolved ==
  \A s \in Slots :
    req[s].route = "tg" =>
      /\ \A k \in 1..Len(trace[s]) :
           IsPost(trace[s][k]) =>
             /\ k = 4
             /\ trace[s][1] = SendMessage(req[s].update.message.chat.id, AckText)
             /\ trace[s][3] = Settled("ok")
      /\ ( /\ JobMessage(s)
           /\ Len(trace[s]) >= 3
           /\ trace[s][3] = Settled("error") ) =>
             /\ Len(trace[s]) = 3
             /\ pc[s] = "done"

\* The acknowledgement of a job message was rejected and the handler ended
\* without a POST.
C20_Witness ==
  \E s \in Slots :
    /\ JobMessage(s)
    /\ pc[s] = "done"
    /\ trace[s] = <<SendMessage(req[s].update.message.chat.id, AckText),
                    Respond(200, ""), Settled("error")>>

====
